---- MODULE Spec2Model ----
(***************************************************************************)
(* State-machine model of Scripts/generate_materials_template.py: the      *)
(* argument check, the per-record parsing and grouping, the column sort,   *)
(* the per-row assembly loop, the three rendered sub-rows and the final    *)
(* write of materials_template.html.                                       *)
(*                                                                         *)
(* Python strings are modelled as sequences of tokens, so that             *)
(* str.split("|") and int() are computed rather than assumed.  A Python    *)
(* value that may be None is modelled as a sequence of length 0 or 1.      *)
(***************************************************************************)
EXTENDS Integers, Sequences, FiniteSets, TLC

\* Bounds of the model ----------------------------------------------------
\* Largest number of records read from the input document.
MaxElems == 3
\* Largest number of records in a row bucket given directly to the loop.
MaxBucketLen == 3
\* Largest and (negated) smallest column order in such a bucket.
MaxBucketCol == 3
MaxNegCol == 0

VARIABLES pc, argv, exc, stdout, data, is_structural, d, spacing, keys, ki,
          input_col_values, output_col_values, ci, labels_count,
          cur_row_name, html_rows, file

vars == <<pc, argv, exc, stdout, data, is_structural, d, spacing, keys, ki,
          input_col_values, output_col_values, ci, labels_count,
          cur_row_name, html_rows, file>>

loader_vars == <<argv, exc, stdout, data, is_structural, d, spacing, keys, ki>>
loop_vars == <<output_col_values, ci, labels_count, cur_row_name>>

\* Strings ------------------------------------------------------------------
SEP == "|"
Str(tok) == <<tok>>
EmptyStr == <<>>

\* str.split(sep): the segments between separators; always at least one.
RECURSIVE Split(_, _)
Split(s, sep) ==
    IF \A i \in 1..Len(s) : s[i] # sep
    THEN <<s>>
    ELSE LET p == CHOOSE i \in 1..Len(s) :
                     s[i] = sep /\ \A j \in 1..(i - 1) : s[j] # sep
         IN <<SubSeq(s, 1, p - 1)>> \o Split(SubSeq(s, p + 1, Len(s)), sep)

\* int(s): defined on the digit strings of the model; anything else raises.
Digits == ("0" :> 0) @@ ("1" :> 1) @@ ("2" :> 2) @@ ("3" :> 3)
IntOk(s) == Len(s) = 1 /\ s[1] \in DOMAIN Digits
IntOf(s) == Digits[s[1]]

\* Cells of output_col_values: a str (title), a tuple (material) or None.
StrCell(s) == [type |-> "str", val |-> s]
TupleCell(t) == [type |-> "tuple", val |-> t]
NoneCell == [type |-> "NoneType"]

\* Python truth value of a cell: None and "" are false.
Truthy(c) ==
    \/ c.type = "tuple"
    \/ c.type = "str" /\ c.val # EmptyStr

\* elem["color_key"]: each record carries its own payload.
ColorKey(elem) == elem.id

\* The assembly loop (one row) ----------------------------------------------
\* A tuple of d: (row_name, col_order, col_name, elem), indices 0..3.
Tuple(row_name, col_order, col_name, elem) ==
    [row_name |-> row_name, col_order |-> col_order,
     col_name |-> col_name, elem |-> elem]

\* The loop's locals, as set before the while.
LoopStart ==
    [out |-> <<>>, ci |-> 0, labels_count |-> 0, cur_row_name |-> <<>>]

\* Variants of the loop body, each a slip the loop could contain.
\* "<" in place of "<=" in the position test.
LoopBodyStrictLess(v, s) ==
    LET input_col_value == v[s.ci + 1] IN
    IF input_col_value.col_order + s.labels_count < Len(s.out)
    THEN IF <<input_col_value.row_name>> # s.cur_row_name
         THEN [s EXCEPT !.out = Append(@, StrCell(input_col_value.row_name)),
                        !.labels_count = @ + 1,
                        !.cur_row_name = <<input_col_value.row_name>>]
         ELSE [s EXCEPT !.out = Append(@, TupleCell(input_col_value)),
                        !.ci = @ + 1]
    ELSE [s EXCEPT !.out = Append(@, NoneCell)]

\* The title test made before the position test.
LoopBodyLabelFirst(v, s) ==
    LET input_col_value == v[s.ci + 1] IN
    IF <<input_col_value.row_name>> # s.cur_row_name
    THEN [s EXCEPT !.out = Append(@, StrCell(input_col_value.row_name)),
                   !.labels_count = @ + 1,
                   !.cur_row_name = <<input_col_value.row_name>>]
    ELSE IF input_col_value.col_order + s.labels_count <= Len(s.out)
         THEN [s EXCEPT !.out = Append(@, TupleCell(input_col_value)),
                        !.ci = @ + 1]
         ELSE [s EXCEPT !.out = Append(@, NoneCell)]

\* labels_count left alone when a title is appended.
LoopBodyNoShift(v, s) ==
    LET input_col_value == v[s.ci + 1] IN
    IF input_col_value.col_order + s.labels_count <= Len(s.out)
    THEN IF <<input_col_value.row_name>> # s.cur_row_name
         THEN [s EXCEPT !.out = Append(@, StrCell(input_col_value.row_name)),
                        !.cur_row_name = <<input_col_value.row_name>>]
         ELSE [s EXCEPT !.out = Append(@, TupleCell(input_col_value)),
                        !.ci = @ + 1]
    ELSE [s EXCEPT !.out = Append(@, NoneCell)]

\* ci advanced in the title branch as well: the record's data is skipped
\* when a later record of the row still waits.
LoopBodyDropOnLabel(v, s) ==
    LET input_col_value == v[s.ci + 1] IN
    IF input_col_value.col_order + s.labels_count <= Len(s.out)
    THEN IF <<input_col_value.row_name>> # s.cur_row_name
         THEN [s EXCEPT !.out = Append(@, StrCell(input_col_value.row_name)),
                        !.labels_count = @ + 1,
                        !.cur_row_name = <<input_col_value.row_name>>,
                        !.ci = IF @ + 1 < Len(v) THEN @ + 1 ELSE @]
         ELSE [s EXCEPT !.out = Append(@, TupleCell(input_col_value)),
                        !.ci = @ + 1]
    ELSE [s EXCEPT !.out = Append(@, NoneCell)]

\* The row name compared with every title of the row so far, not the last.
LoopBodySeenLabels(v, s) ==
    LET input_col_value == v[s.ci + 1]
        seen == \E i \in 1..Len(s.out) :
                    s.out[i] = StrCell(input_col_value.row_name)
    IN
    IF input_col_value.col_order + s.labels_count <= Len(s.out)
    THEN IF ~seen
         THEN [s EXCEPT !.out = Append(@, StrCell(input_col_value.row_name)),
                        !.labels_count = @ + 1,
                        !.cur_row_name = <<input_col_value.row_name>>]
         ELSE [s EXCEPT !.out = Append(@, TupleCell(input_col_value)),
                        !.ci = @ + 1]
    ELSE [s EXCEPT !.out = Append(@, NoneCell)]

\* The filler branch appending nothing.
LoopBodyNoFiller(v, s) ==
    LET input_col_value == v[s.ci + 1] IN
    IF input_col_value.col_order + s.labels_count <= Len(s.out)
    THEN IF <<input_col_value.row_name>> # s.cur_row_name
         THEN [s EXCEPT !.out = Append(@, StrCell(input_col_value.row_name)),
                        !.labels_count = @ + 1,
                        !.cur_row_name = <<input_col_value.row_name>>]
         ELSE [s EXCEPT !.out = Append(@, TupleCell(input_col_value)),
                        !.ci = @ + 1]
    ELSE s

\* One iteration of "while ci < len(input_col_values)".
LoopBody(v, s) ==
    LET input_col_value == v[s.ci + 1] IN
    IF input_col_value.col_order + s.labels_count <= Len(s.out)
    THEN IF <<input_col_value.row_name>> # s.cur_row_name
         THEN [s EXCEPT !.out = Append(@, StrCell(input_col_value.row_name)),
                        !.labels_count = @ + 1,
                        !.cur_row_name = <<input_col_value.row_name>>]
         ELSE [s EXCEPT !.out = Append(@, TupleCell(input_col_value)),
                        !.ci = @ + 1]
    ELSE [s EXCEPT !.out = Append(@, NoneCell)]

\* The whole while loop, from state s.
RECURSIVE Loop(_, _)
Loop(v, s) == IF s.ci < Len(v) THEN Loop(v, LoopBody(v, s)) ELSE s

\* Rendering of one row ------------------------------------------------------
\* The border_top class given only to a material that follows a title.
ColorsRowBorderAfterTitle(out) ==
    [i \in 1..Len(out) |->
        LET c == out[i] IN
        IF Truthy(c)
        THEN IF c.type # "tuple"
             THEN [td |-> "title", text |-> c.val]
             ELSE IF i > 1 /\ out[i - 1].type = "str"
                  THEN [td |-> "swatch", bgcolor |-> ColorKey(c.val.elem),
                        class |-> "border_top"]
                  ELSE [td |-> "swatch", bgcolor |-> ColorKey(c.val.elem),
                        class |-> ""]
        ELSE [td |-> "empty"]]

\* "Colors": one td per cell.
ColorsRow(out) ==
    [i \in 1..Len(out) |->
        LET c == out[i] IN
        IF Truthy(c)
        THEN IF c.type # "tuple"
             THEN [td |-> "title", text |-> c.val]
             ELSE [td |-> "swatch", bgcolor |-> ColorKey(c.val.elem),
                   class |-> "border_top"]
        ELSE [td |-> "empty"]]

\* "Name": the column name under a material, an empty td elsewhere.
NameRow(out) ==
    [i \in 1..Len(out) |->
        LET c == out[i] IN
        IF Truthy(c)
        THEN IF c.type # "tuple"
             THEN [td |-> "empty"]
             ELSE [td |-> "name", text |-> c.val.col_name]
        ELSE [td |-> "empty"]]

\* "Data": mass|strength|stiffness of a material in structural mode.
DataRow(out, structural) ==
    [i \in 1..Len(out) |->
        LET c == out[i] IN
        IF Truthy(c)
        THEN IF c.type # "tuple"
             THEN [td |-> "empty"]
             ELSE [td |-> "data",
                   text |-> IF structural THEN <<c.val.elem.id>> ELSE <<>>]
        ELSE [td |-> "empty"]]

RenderedRow(out, structural) ==
    [colors |-> ColorsRow(out), names |-> NameRow(out),
     values |-> DataRow(out, structural)]

\* Row buckets given directly to the loop ------------------------------------
BucketNames == {Str("A"), Str("B")}
BucketCols == (-MaxNegCol)..MaxBucketCol

\* Every bucket the column sort can produce: non-empty, col_order ascending.
SortedBuckets ==
    UNION {
      { [i \in 1..n |-> Tuple(names[i], cols[i], EmptyStr, [id |-> i])] :
          names \in [1..n -> BucketNames],
          cols \in {f \in [1..n -> BucketCols] :
                      \A i \in 1..(n - 1) : f[i] <= f[i + 1]} }
      : n \in 1..MaxBucketLen }

InitAsm ==
    /\ pc = "loop"
    /\ argv = <<"generate_materials_template.py", "materials.json", "s">>
    /\ exc = ""
    /\ stdout = <<>>
    /\ data = <<>>
    /\ is_structural \in BOOLEAN
    /\ d = <<>>
    /\ spacing = IF is_structural THEN 0 ELSE 1
    /\ keys = <<>>
    /\ ki = 0
    /\ input_col_values \in SortedBuckets
    /\ output_col_values = LoopStart.out
    /\ ci = LoopStart.ci
    /\ labels_count = LoopStart.labels_count
    /\ cur_row_name = LoopStart.cur_row_name
    /\ html_rows = <<>>
    /\ file = <<>>

LoopState ==
    [out |-> output_col_values, ci |-> ci, labels_count |-> labels_count,
     cur_row_name |-> cur_row_name]

\* One pass through the body of the while loop.
LoopIter ==
    /\ pc = "loop"
    /\ ci < Len(input_col_values)
    /\ LET s == LoopBody(input_col_values, LoopState) IN
         /\ output_col_values' = s.out
         /\ ci' = s.ci
         /\ labels_count' = s.labels_count
         /\ cur_row_name' = s.cur_row_name
    /\ UNCHANGED <<pc, input_col_values, html_rows, file>>
    /\ UNCHANGED loader_vars

\* The while condition found false.
LoopExit ==
    /\ pc = "loop"
    /\ ~(ci < Len(input_col_values))
    /\ pc' = "render"
    /\ UNCHANGED <<input_col_values, html_rows, file>>
    /\ UNCHANGED loop_vars
    /\ UNCHANGED loader_vars

\* The three sub-rows of the row appended to html.
RenderRow ==
    /\ pc = "render"
    /\ html_rows' = Append(html_rows, RenderedRow(output_col_values, is_structural))
    /\ pc' = "row_done"
    /\ UNCHANGED <<input_col_values, file>>
    /\ UNCHANGED loop_vars
    /\ UNCHANGED loader_vars

NextAsm == LoopIter \/ LoopExit \/ RenderRow

SpecAsm == InitAsm /\ [][NextAsm]_vars

\* The interpreter runs the loop to its end: it never stops between steps.
FairSpecAsm == InitAsm /\ [][NextAsm]_vars /\ WF_vars(NextAsm)

\* The whole run ---------------------------------------------------------------
SCRIPT == "generate_materials_template.py"
PATH == "materials.json"
USAGE == "Usage: generate_materials_template.py <path_to_materials_json> s|e"

\* Command lines: too few, too many, a wrong flag, and the two valid ones.
ArgvSet ==
    {<<SCRIPT>>, <<SCRIPT, PATH>>, <<SCRIPT, PATH, "s">>, <<SCRIPT, PATH, "e">>,
     <<SCRIPT, PATH, "x">>, <<SCRIPT, PATH, "s", "e">>}

\* template.row strings: "<int>|<name>" with an empty or a non-empty name,
\* and the malformed "0", "0|A|A" and "A|A".
RowStrings ==
    {<<r, SEP>> \o nm : r \in {"0", "1"}, nm \in {EmptyStr, Str("A")}}
      \cup {<<"0">>, <<"0", SEP, "A", SEP, "A">>, <<"A", SEP, "A">>}

\* str(template.column): "0", "1" and "1|n", and the malformed "0|n|n"
\* and "n".
ColStrings ==
    {<<"0">>, <<"1">>, <<"1", SEP, "n">>}
      \cup {<<"0", SEP, "n", SEP, "n">>, <<"n">>}

\* The body of "for elem in data" with its assert statements stripped.
ParseElemNoAssert(elem) ==
    LET row_parts == Split(elem.row, SEP)
        col_parts == Split(elem.column, SEP)
    IN
    IF Len(row_parts) < 2 THEN [exc |-> "IndexError"]
    ELSE IF ~IntOk(row_parts[1]) THEN [exc |-> "ValueError"]
    ELSE IF ~IntOk(col_parts[1]) THEN [exc |-> "ValueError"]
    ELSE [exc |-> "",
          row_order |-> IntOf(row_parts[1]),
          tuple |-> Tuple(row_parts[2], IntOf(col_parts[1]),
                          IF Len(col_parts) = 2 THEN col_parts[2] ELSE EmptyStr,
                          elem)]

\* The body of "for elem in data" up to the tuple it appends: the exception
\* it raises, or the row order and the tuple.
ParseElem(elem) ==
    LET row_parts == Split(elem.row, SEP)
        col_parts == Split(elem.column, SEP)
    IN
    IF Len(row_parts) # 2 THEN [exc |-> "AssertionError"]
    ELSE IF ~IntOk(row_parts[1]) THEN [exc |-> "ValueError"]
    ELSE IF Len(col_parts) = 2
         THEN IF ~IntOk(col_parts[1]) THEN [exc |-> "ValueError"]
              ELSE [exc |-> "",
                    row_order |-> IntOf(row_parts[1]),
                    tuple |-> Tuple(row_parts[2], IntOf(col_parts[1]),
                                    col_parts[2], elem)]
         ELSE IF Len(col_parts) # 1 THEN [exc |-> "AssertionError"]
              ELSE IF ~IntOk(col_parts[1]) THEN [exc |-> "ValueError"]
                   ELSE [exc |-> "",
                         row_order |-> IntOf(row_parts[1]),
                         tuple |-> Tuple(row_parts[2], IntOf(col_parts[1]),
                                         EmptyStr, elem)]

\* d.setdefault(row_order, []).append(t)
SetDefaultAppend(dd, row_order, t) ==
    IF row_order \in DOMAIN dd
    THEN [dd EXCEPT ![row_order] = Append(@, t)]
    ELSE dd @@ (row_order :> <<t>>)

\* A sort by col_order that puts a record before the earlier records of the
\* same col_order.
RECURSIVE SortedByColUnstable(_)
SortedByColUnstable(v) ==
    IF v = <<>> THEN <<>>
    ELSE LET rest == SortedByColUnstable(SubSeq(v, 1, Len(v) - 1))
             x == v[Len(v)]
             p == Cardinality({i \in 1..Len(rest) :
                                 rest[i].col_order < x.col_order})
         IN SubSeq(rest, 1, p) \o <<x>> \o SubSeq(rest, p + 1, Len(rest))

\* sorted(v, key=itemgetter(1)): ascending col_order, equal keys in their
\* original order.
RECURSIVE SortedByCol(_)
SortedByCol(v) ==
    IF v = <<>> THEN <<>>
    ELSE LET rest == SortedByCol(SubSeq(v, 1, Len(v) - 1))
             x == v[Len(v)]
             p == Cardinality({i \in 1..Len(rest) :
                                 rest[i].col_order <= x.col_order})
         IN SubSeq(rest, 1, p) \o <<x>> \o SubSeq(rest, p + 1, Len(rest))

\* sorted(d.keys())
RECURSIVE SortedKeys(_)
SortedKeys(S) ==
    IF S = {} THEN <<>>
    ELSE LET m == CHOOSE x \in S : \A y \in S : x <= y
         IN <<m>> \o SortedKeys(S \ {m})

Init ==
    /\ pc = "start"
    /\ argv \in ArgvSet
    /\ exc = ""
    /\ stdout = <<>>
    /\ data = <<>>
    /\ is_structural = FALSE
    /\ d = <<>>
    /\ spacing = 0
    /\ keys = <<>>
    /\ ki = 0
    /\ input_col_values = <<>>
    /\ output_col_values = LoopStart.out
    /\ ci = LoopStart.ci
    /\ labels_count = LoopStart.labels_count
    /\ cur_row_name = LoopStart.cur_row_name
    /\ html_rows = <<>>
    /\ file = <<>>

\* The argument check, then the reading and parsing of the input document.
CheckArgs ==
    /\ pc = "start"
    /\ IF Len(argv) # 3 \/ (argv[3] # "s" /\ argv[3] # "e")
       THEN /\ stdout' = Append(stdout, USAGE)
            /\ pc' = "usage_exit"
            /\ UNCHANGED <<exc, is_structural>>
       ELSE \/ /\ pc' = "parse"
               /\ is_structural' = (argv[3] = "s")
               /\ UNCHANGED <<exc, stdout>>
            \/ /\ pc' = "raised"
               /\ exc' = "LoadError"
               /\ UNCHANGED <<stdout, is_structural>>
    /\ UNCHANGED <<argv, data, d, spacing, keys, ki, input_col_values,
                   html_rows, file>>
    /\ UNCHANGED loop_vars

\* One pass through "for elem in data": the next record of the document.
ReadElem ==
    /\ pc = "parse"
    /\ Len(data) < MaxElems
    /\ \E row \in RowStrings, column \in ColStrings :
         LET elem == [id |-> Len(data) + 1, row |-> row, column |-> column]
             r == ParseElem(elem)
         IN /\ data' = Append(data, elem)
            /\ IF r.exc # ""
               THEN /\ pc' = "raised"
                    /\ exc' = r.exc
                    /\ d' = d
               ELSE /\ pc' = pc
                    /\ exc' = exc
                    /\ d' = SetDefaultAppend(d, r.row_order, r.tuple)
    /\ UNCHANGED <<argv, stdout, is_structural, spacing, keys, ki,
                   input_col_values, html_rows, file>>
    /\ UNCHANGED loop_vars

\* The document is exhausted: the columns are sorted, the table is opened
\* and the row keys are put in order.
SortCols ==
    /\ pc = "parse"
    /\ d' = [k \in DOMAIN d |-> SortedByCol(d[k])]
    /\ spacing' = IF is_structural THEN 0 ELSE 1
    /\ keys' = SortedKeys(DOMAIN d)
    /\ ki' = 0
    /\ pc' = "rows"
    /\ UNCHANGED <<argv, exc, stdout, data, is_structural, input_col_values,
                   html_rows, file>>
    /\ UNCHANGED loop_vars

\* One pass through "for k in sorted(d.keys())": the row is assembled and
\* its three sub-rows are appended to html.
VisitRow ==
    /\ pc = "rows"
    /\ ki < Len(keys)
    /\ LET v == d[keys[ki + 1]]
           s == Loop(v, LoopStart)
       IN /\ input_col_values' = v
          /\ output_col_values' = s.out
          /\ ci' = s.ci
          /\ labels_count' = s.labels_count
          /\ cur_row_name' = s.cur_row_name
          /\ html_rows' = Append(html_rows, RenderedRow(s.out, is_structural))
    /\ ki' = ki + 1
    /\ UNCHANGED <<pc, argv, exc, stdout, data, is_structural, d, spacing,
                   keys, file>>

\* The table is closed and materials_template.html is written.
WriteFile ==
    /\ pc = "rows"
    /\ ki = Len(keys)
    /\ file' = <<[spacing |-> spacing, rows |-> html_rows]>>
    /\ pc' = "done"
    /\ UNCHANGED <<argv, exc, stdout, data, is_structural, d, spacing, keys,
                   ki, input_col_values, html_rows>>
    /\ UNCHANGED loop_vars

Next == CheckArgs \/ ReadElem \/ SortCols \/ VisitRow \/ WriteFile

Spec == Init /\ [][Next]_vars

\* Properties of the assembly loop (checked under SpecAsm) -------------------
IsData(c) == c.type = "tuple"
IsLabel(c) == c.type = "str"
IsBlank(c) == c.type = "NoneType"

\* The records wrapped by the Data cells of a row, in row order.
DataOf(out) ==
    LET t == SelectSeq(out, IsData) IN [i \in 1..Len(t) |-> t[i].val]

\* The texts of the Label cells of a row, in row order.
LabelTexts(out) ==
    LET t == SelectSeq(out, IsLabel) IN [i \in 1..Len(t) |-> t[i].val]

\* The row names of the maximal runs of equal row_name of a bucket.
RECURSIVE RunLabels(_)
RunLabels(v) ==
    IF v = <<>> THEN <<>>
    ELSE LET r == RunLabels(SubSeq(v, 1, Len(v) - 1)) IN
         IF Len(v) > 1 /\ v[Len(v) - 1].row_name = v[Len(v)].row_name
         THEN r
         ELSE Append(r, v[Len(v)].row_name)

\* Number of Label cells among the first i - 1 cells of a row.
LabelsBefore(out, i) == Cardinality({j \in 1..(i - 1) : IsLabel(out[j])})

RowFinished == pc \in {"render", "row_done"}

\* C1: the row holds exactly one Data cell per record of the bucket, none
\* dropped or duplicated, in bucket order -- also for records that share
\* (rowLabel, colPosition); during the loop the Data cells are exactly the
\* records already passed.
C1_OneDataCellPerRecord ==
    /\ DataOf(output_col_values) = SubSeq(input_col_values, 1, ci)
    /\ RowFinished => DataOf(output_col_values) = input_col_values

C1_Witness ==
    /\ pc = "row_done"
    /\ Len(input_col_values) = 3
    /\ input_col_values[1].row_name = input_col_values[2].row_name
    /\ input_col_values[1].col_order = input_col_values[2].col_order
    /\ input_col_values[3].row_name # input_col_values[2].row_name

\* C2: the Label cells of a finished row are, in order, the row names of
\* the maximal runs of consecutive records with equal rowLabel; a label
\* that comes back after another one (A, B, A) gets a fresh Label cell.
C2_OneLabelPerRun ==
    RowFinished => LabelTexts(output_col_values) = RunLabels(input_col_values)

C2_Witness ==
    /\ pc = "row_done"
    /\ LabelTexts(output_col_values) = <<Str("A"), Str("B"), Str("A")>>

\* C3 as claimed: the 0-based index of every Data cell equals the record's
\* colPosition plus the number of Label cells before it.
C3_IndexIsColPlusLabels ==
    \A i \in 1..Len(output_col_values) :
        IsData(output_col_values[i]) =>
            i - 1 = output_col_values[i].val.col_order
                      + LabelsBefore(output_col_values, i)

\* The cell before the Data cell at i, stepping over the record's own Label
\* cell when it has one (0: the row starts there).
CellBefore(out, i) == IF i > 1 /\ IsLabel(out[i - 1]) THEN i - 2 ELSE i - 1

\* C3 as amended: the index of a Data cell is never less than colPosition
\* plus the Label cells before it, and equals it when the record's place
\* was still free: when a Blank cell precedes the record's cells, or the row
\* starts with them and colPosition is not negative.
C3_IndexAtLeastColPlusLabels ==
    \A i \in 1..Len(output_col_values) :
        IsData(output_col_values[i]) =>
            LET target == output_col_values[i].val.col_order
                            + LabelsBefore(output_col_values, i)
                b == CellBefore(output_col_values, i)
            IN /\ i - 1 >= target
               /\ (b >= 1 /\ IsBlank(output_col_values[b])) => i - 1 = target
               /\ (b = 0 /\ output_col_values[i].val.col_order >= 0)
                      => i - 1 = target

C3_Witness ==
    /\ pc = "row_done"
    /\ \E i, k \in 1..Len(output_col_values) :
        /\ IsData(output_col_values[i])
        /\ IsData(output_col_values[k])
        /\ CellBefore(output_col_values, k) >= 1
        /\ IsBlank(output_col_values[CellBefore(output_col_values, k)])
        /\ i - 1 > output_col_values[i].val.col_order
                     + LabelsBefore(output_col_values, i)

\* An upper bound on the cells one row can hold: every record adds its Data
\* cell, at most one Label cell, and Blank cells only up to its position.
MaxOf(S) == CHOOSE x \in S : \A y \in S : y <= x
RowLengthBound(v) ==
    2 * Len(v) + MaxOf({0} \cup {v[i].col_order : i \in 1..Len(v)})

\* C5: the loop ends, and ends exactly when every record has its Data cell;
\* every iteration appends one cell (or advances the record cursor), and the
\* row never grows past what the records account for.
C5_LoopTerminates ==
    /\ <>(pc = "row_done")
    /\ [](RowFinished =>
            /\ ci = Len(input_col_values)
            /\ Len(DataOf(output_col_values)) = Len(input_col_values))
    /\ [](pc = "loop" /\ ci = Len(input_col_values)
            => Len(DataOf(output_col_values)) = Len(input_col_values))
    /\ [](Len(output_col_values) <= RowLengthBound(input_col_values))
    /\ [][LoopIter =>
            \/ ci' = ci + 1
            \/ Len(output_col_values') > Len(output_col_values)]_vars

C5_Witness ==
    /\ pc = "row_done"
    /\ Len(input_col_values) = 3
    /\ \E i \in 1..Len(output_col_values) : IsBlank(output_col_values[i])
    /\ Len(LabelTexts(output_col_values)) >= 2

\* A bucket of one record at colPosition 3.
SingleAtThree ==
    /\ Len(input_col_values) = 1
    /\ input_col_values[1].col_order = 3

\* C6 as claimed: such a bucket gives [Label, Blank, Blank, Data].
C6_LabelThenBlanks ==
    (RowFinished /\ SingleAtThree) =>
        output_col_values =
            <<StrCell(input_col_values[1].row_name), NoneCell, NoneCell,
              TupleCell(input_col_values[1])>>

\* C6 as amended: such a bucket gives [Blank, Blank, Blank, Label, Data]:
\* length 5, the Label cell fourth, the Data cell at physical index 4.
C6_BlanksThenLabel ==
    (RowFinished /\ SingleAtThree) =>
        output_col_values =
            <<NoneCell, NoneCell, NoneCell,
              StrCell(input_col_values[1].row_name),
              TupleCell(input_col_values[1])>>

C6_Witness ==
    /\ pc = "row_done"
    /\ SingleAtThree
    /\ Len(output_col_values) = 5
    /\ IsData(output_col_values[5])

\* A bucket of rec0 (label "A", colPosition 0) then rec1 ("B", 0).
CollidingAB ==
    /\ Len(input_col_values) = 2
    /\ input_col_values[1].row_name = Str("A")
    /\ input_col_values[2].row_name = Str("B")
    /\ input_col_values[1].col_order = 0
    /\ input_col_values[2].col_order = 0

\* C7 as claimed: the row is [Label A, Label B, Data rec1]; rec0 is dropped.
C7_FirstRecordDropped ==
    (RowFinished /\ CollidingAB) =>
        output_col_values =
            <<StrCell(Str("A")), StrCell(Str("B")),
              TupleCell(input_col_values[2])>>

\* C7 as amended: the row is [Label A, Data rec0, Label B, Data rec1]; both
\* records get their Data cell.
C7_BothRecordsPlaced ==
    (RowFinished /\ CollidingAB) =>
        output_col_values =
            <<StrCell(Str("A")), TupleCell(input_col_values[1]),
              StrCell(Str("B")), TupleCell(input_col_values[2])>>

C7_Witness ==
    /\ pc = "row_done"
    /\ CollidingAB
    /\ Len(output_col_values) = 4

\* C10: a Label cell is directly followed by the Data cell of the record
\* that caused it, never by a Blank or another Label; while it is still the
\* last cell, that record is the current one and its Data cell is what the
\* next iteration appends; a finished row ends with a Data cell.
C10_LabelThenItsData ==
    /\ \A i \in 1..Len(output_col_values) :
         IsLabel(output_col_values[i]) =>
           IF i < Len(output_col_values)
           THEN /\ IsData(output_col_values[i + 1])
                /\ output_col_values[i + 1].val.row_name
                     = output_col_values[i].val
           ELSE /\ pc = "loop"
                /\ ci < Len(input_col_values)
                /\ input_col_values[ci + 1].row_name = output_col_values[i].val
                /\ cur_row_name = <<output_col_values[i].val>>
                /\ input_col_values[ci + 1].col_order + labels_count
                     <= Len(output_col_values)
    /\ RowFinished =>
         /\ output_col_values # <<>>
         /\ IsData(output_col_values[Len(output_col_values)])

C10_Witness ==
    /\ pc = "row_done"
    /\ \E i \in 2..Len(output_col_values) :
         /\ IsLabel(output_col_values[i])
         /\ IsBlank(output_col_values[i - 1])
    /\ Len(LabelTexts(output_col_values)) >= 2

\* C8 as claimed: a Data cell carries the top-border class exactly when the
\* cell before it is a Label cell.
C8_BorderOnlyAfterLabel ==
    pc = "row_done" =>
        LET colors == html_rows[Len(html_rows)].colors IN
        \A i \in 1..Len(output_col_values) :
            IsData(output_col_values[i]) =>
                (colors[i].class = "border_top"
                   <=> (i > 1 /\ IsLabel(output_col_values[i - 1])))

\* C8 as amended: every Data cell is rendered as a swatch of its color_key
\* carrying the top-border class, whatever cell precedes it.
C8_BorderOnEveryData ==
    pc = "row_done" =>
        LET colors == html_rows[Len(html_rows)].colors IN
        /\ Len(colors) = Len(output_col_values)
        /\ \A i \in 1..Len(output_col_values) :
             IsData(output_col_values[i]) =>
                 colors[i] = [td |-> "swatch",
                              bgcolor |-> output_col_values[i].val.elem.id,
                              class |-> "border_top"]

C8_Witness ==
    /\ pc = "row_done"
    /\ \E i, k \in 2..Len(output_col_values) :
         /\ IsData(output_col_values[i]) /\ IsData(output_col_values[i - 1])
         /\ IsData(output_col_values[k]) /\ IsBlank(output_col_values[k - 1])
         /\ html_rows[1].colors[i].class = "border_top"
         /\ html_rows[1].colors[k].class = "border_top"

\* Properties of the whole run (checked under Spec) --------------------------
\* A usage error: an argument count other than two, or a flag not s or e.
UsageError ==
    \/ Len(argv) # 3
    \/ argv[3] \notin {"s", "e"}

\* A structural error: template.row not of two segments, or template.column
\* of neither one nor two.
StructuralError(elem) ==
    \/ Len(Split(elem.row, SEP)) # 2
    \/ Len(Split(elem.column, SEP)) \notin {1, 2}

\* C4: the output file is written only by the last step of a successful run;
\* after a usage error, and after a structural error in a record wherever it
\* sits in the input, the run has stopped and no file has been written.
C4_NoOutputOnError ==
    /\ file # <<>> => /\ pc = "done"
                      /\ exc = ""
                      /\ ~UsageError
                      /\ \A i \in 1..Len(data) : ~StructuralError(data[i])
    /\ UsageError => /\ pc \in {"start", "usage_exit"}
                     /\ file = <<>>
                     /\ data = <<>>
    /\ pc = "usage_exit" => stdout = <<USAGE>>
    /\ (\E i \in 1..Len(data) : StructuralError(data[i]))
         => /\ pc = "raised"
            /\ exc \in {"AssertionError", "ValueError"}
            /\ StructuralError(data[Len(data)])
            /\ file = <<>>

C4_Witness ==
    /\ pc = "raised"
    /\ Len(data) = 3
    /\ StructuralError(data[3])
    /\ DOMAIN d = {0, 1}
    /\ file = <<>>

\* The record number of the i-th tuple of a bucket.
IdOf(t) == t.elem.id

\* C9: once the columns are sorted, each bucket holds exactly the records of
\* its row order, each once, in ascending col_order with equal col_order in
\* input order, whatever the input order; the rows are visited in ascending
\* row order and the loop is given the bucket as sorted.
C9_BucketsGroupedAndStablySorted ==
    pc \in {"rows", "done"} =>
      /\ DOMAIN d = {ParseElem(data[i]).row_order : i \in 1..Len(data)}
      /\ \A k \in DOMAIN d :
           /\ {IdOf(d[k][i]) : i \in 1..Len(d[k])}
                = {i \in 1..Len(data) : ParseElem(data[i]).row_order = k}
           /\ \A i \in 1..Len(d[k]) :
                d[k][i] = ParseElem(data[IdOf(d[k][i])]).tuple
           /\ \A i, j \in 1..Len(d[k]) :
                i < j =>
                  \/ d[k][i].col_order < d[k][j].col_order
                  \/ /\ d[k][i].col_order = d[k][j].col_order
                     /\ IdOf(d[k][i]) < IdOf(d[k][j])
      /\ {keys[i] : i \in 1..Len(keys)} = DOMAIN d
      /\ \A i, j \in 1..Len(keys) : i < j => keys[i] < keys[j]
      /\ ki > 0 => input_col_values = d[keys[ki]]

C9_Witness ==
    /\ pc = "done"
    /\ Len(data) = 3
    /\ DOMAIN d = {1}
    /\ <<IdOf(d[1][1]), IdOf(d[1][2]), IdOf(d[1][3])>> = <<2, 3, 1>>
    /\ d[1][1].col_order = d[1][2].col_order
    /\ input_col_values = d[1]

====
